---------------------------- MODULE Spec2Model ----------------------------
(* async_logger_log: the `log` facade implemented on top of the           *)
(* async_logger double-buffered queue.                                     *)
(*                                                                         *)
(* The Logger (src/src/lib.rs) is modelled from its source.  The queue     *)
(* (AsyncLoggerNB), its background writer thread and the FileWriter live   *)
(* in the async_logger crate, which is not part of this repository; they   *)
(* are modelled from the interface contract the design specification      *)
(* gives for them: a two-buffer queue that blocks a producer when both     *)
(* buffers are full, one writer thread that drains it, a blocking flush.   *)
EXTENDS Integers, Sequences, FiniteSets, TLC

(* ------------------------------ bounds -------------------------------- *)
\* log() calls the producer threads make at most, all together (three fill
\* both buffers of capacity 1 and block the third caller)
MaxLogs == 3
\* flush() calls each producer thread makes at most
MaxFlushes == 1
\* log() calls made while the threshold changes, at most
MaxFacadeLogs == 2
\* calls of the default formatter looked at together, at most
MaxFormats == 2

(* --------------------------- program constants ------------------------ *)
\* std::usize::MAX (lib.rs:270).  TLC's integers are 32 bits wide; the value
\* is only ever compared, never computed with, so the largest TLC integer
\* stands for it.
USIZE_MAX == 2147483647
DEFAULT_BUF_SIZE == 256
DEFAULT_LOG_FILE_SIZE == 10 * 1024 * 1024
\* the file size the tests pass to Logger::new
LOG_FILE_SIZE == 4096

\* Option<T>: None is the empty sequence, Some(x) the sequence of x
None == <<>>
Some(x) == <<x>>
Unwrap(o) == o[1]

\* producer threads, named by the target they log under (test_logger.rs:99-119)
Producers == {"main", "thread"}
\* the queue's writer thread
BG == "writer_thread"

\* log::Level
Levels == {"Error", "Warn", "Info", "Debug", "Trace"}
\* log::LevelFilter
LevelFilters == {"Off"} \cup Levels
\* the levels a thread of test_logger logs at, call after call:
\* debug!, error!, info!, trace!, warn!, log!(Level::Error)
LevelSeq == <<"Debug", "Error", "Info", "Trace", "Warn", "Error">>
\* the level of a thread's n-th log() call
LevelOfCall(n) == LevelSeq[((n - 1) % Len(LevelSeq)) + 1]
\* the readings of the clock format_msg may see
Times == {"t0"}
\* targets and messages of the records format_msg is given: those of the
\* tests, and strings that hold the separator or a newline themselves
Targets == {<<"main">>, <<"thread">>, <<"main", "]: ", "db">>}
Messages == {<<"testing log record">>, <<"db", "]: ", "testing log record">>,
             <<"line 1", "\n", "line 2">>}
Records == [level : Levels, target : Targets, args : Messages]

\* directories Logger::new is given: two that exist and are writable
\* (lib.rs:247, lib.rs:19) and one that does not exist (lib.rs:248)
Dirs == {"LOG_DIR", "/tmp", "NONEXISTING_LOG_DIR"}
\* whether a directory can take a log file
Usable(dir) == dir # "NONEXISTING_LOG_DIR"
\* file sizes Logger::new is given
FileSizes == {LOG_FILE_SIZE, DEFAULT_LOG_FILE_SIZE}
\* buffer capacities handed to the constructors: all of them when only
\* construction is explored, the small ones when the producers run too
AllBufSizes == {0, 1, 2, 100, DEFAULT_BUF_SIZE, 1024, USIZE_MAX - 1, USIZE_MAX}
BufSizes == {0, 1, 2}

VARIABLES
    builder,     \* the LoggerBuilder value, None when there is none
    logger,      \* the Logger a constructor returned, None when there is none
    args,        \* history: the arguments of the constructor call
    result,      \* what the constructor returned: "none" (not called yet),
                 \* "Ok", "IncorrectBufferSize", "IoError"
    fwOpened,    \* the FileWriters the constructors initialised, in order
    bufs,        \* the queue's two buffers
    wr,          \* the buffer producers are filling
    rd,          \* the buffer the writer thread drains next
    batch,       \* the slice the writer thread holds
    bgpc,        \* the writer thread: "none", "wait", "process", "flush"
    terminated,  \* the queue was shut down
    fileOut,     \* items the FileWriter received through process_slice
    customOut,   \* items a caller-supplied writer received
    flushedLen,  \* how many received items the writer's flush() covers
    inWriter,    \* threads inside process_slice or the writer's flush
    sinkUsers,   \* threads that ever called the writer
    pc,          \* per producer: "idle", "log" (inside write_value), "flush"
    pending,     \* per producer: the item its blocked write_value holds
    ticket,      \* per producer: the items accepted when its flush() began
    nLogs,       \* per producer: log() calls made
    nFlushes,    \* per producer: flush() calls made
    calls,       \* history: every log() call, [id, record, time, enabled]
    accepted,    \* history: ids write_value accepted, in order
    refused,     \* history: ids write_value returned Err for
    surfaced,    \* history: errors and panics log()/flush() gave the caller
    snap,        \* history: per producer, the ids accepted before its
                 \* latest flush() was called
    formatted,   \* history: per producer and log() call, how often the
                 \* formatter ran
    fmtCalls,    \* history: calls of format_msg, [time, record, line]
    max_level,   \* the facade's global threshold, log::max_level()
    enabledRet   \* history: the latest enabled() call and what it returned

ctorVars == <<builder, logger, args, result, fwOpened>>
queueVars == <<bufs, wr, rd, batch, bgpc, terminated>>
sinkVars == <<fileOut, customOut, flushedLen, inWriter, sinkUsers>>
prodVars == <<pc, pending, ticket, nLogs, nFlushes>>
histVars == <<calls, accepted, refused, surfaced, snap, formatted, fmtCalls>>
facadeVars == <<max_level, enabledRet>>
vars == <<ctorVars, queueVars, sinkVars, prodVars, histVars, facadeVars>>

(* ----------------------------- formatters ----------------------------- *)
\* Display of log::Level: the upper-case name
LevelName(level) ==
    CASE level = "Error" -> "ERROR"
      [] level = "Warn" -> "WARN"
      [] level = "Info" -> "INFO"
      [] level = "Debug" -> "DEBUG"
      [] level = "Trace" -> "TRACE"

\* A string is the sequence of its pieces, and format! concatenates: the
\* pieces of a target or of a message run into the pieces around them.

\* mutant: the level is written with {:?}, as the name of the enum variant
format_msg_debug(time, record) ==
    <<"[", time, " ", record.level, " ">> \o record.target \o <<"]: ">>
        \o record.args \o <<"\n">>

\* Logger::format_msg: format!("[{} {} {}]: {}\n", time, level, target, args)
format_msg(time, record) ==
    <<"[", time, " ", LevelName(record.level), " ">> \o record.target
        \o <<"]: ">> \o record.args \o <<"\n">>

\* the formatter of tests/builder_test.rs: format!("\t{}\t", record.args())
custom_formatter(time, record) == <<"\t">> \o record.args \o <<"\t">>

\* a call of Logger::format_msg(record) when the clock reads time
Format(time, record) ==
    /\ Cardinality(fmtCalls) < MaxFormats
    /\ fmtCalls' = fmtCalls \cup {[time |-> time, record |-> record,
                                    line |-> format_msg(time, record)]}
    /\ UNCHANGED <<ctorVars, queueVars, sinkVars, prodVars, facadeVars, calls,
                   accepted, refused, surfaced, snap, formatted>>

\* a call through a fn(&Record) -> String pointer
ApplyFormatter(f, time, record) ==
    IF f = "custom_formatter" THEN custom_formatter(time, record)
    ELSE format_msg(time, record)

(* ---------------------------- collaborators --------------------------- *)
\* FileWriter::new(log_dir, file_size): Ok on a usable directory, an I/O
\* error otherwise
FileWriter_new(log_dir, file_size, usable) ==
    IF ~usable
    THEN [ok |-> FALSE, kind |-> "IoError"]
    ELSE [ok |-> TRUE,
          writer |-> [kind |-> "FileWriter", dir |-> log_dir,
                      file_size |-> file_size]]

\* the capacity check of AsyncLoggerNB::new
IncorrectBufferSize(buf_sz) == buf_sz = 0 \/ buf_sz = USIZE_MAX

(* ---------------------------- construction ---------------------------- *)
\* mutant: every error of a callee is reported as a buffer size error
PropagateAsBufferSize(kind) == "IncorrectBufferSize"

\* the `?` operator: the callee's error is returned as it is
Propagate(kind) == kind

\* the queue and its thread, as AsyncLoggerNB::new leaves them
QueueStarted ==
    /\ bufs' = [i \in {0, 1} |-> <<>>]
    /\ wr' = 0
    /\ rd' = 0
    /\ batch' = <<>>
    /\ bgpc' = "wait"
    /\ terminated' = FALSE

\* AsyncLoggerNB::new(writer, buf_sz) followed by Ok(Logger {..}), or the
\* error `?` returns
MakeLogger(writer, buf_sz, fmt) ==
    IF IncorrectBufferSize(buf_sz)
    THEN /\ result' = Propagate("IncorrectBufferSize")
         /\ logger' = None
         /\ UNCHANGED queueVars
    ELSE /\ result' = "Ok"
         /\ logger' = Some([async_logger |-> [writer |-> writer,
                                               buf_sz |-> buf_sz],
                             formatter |-> fmt])
         /\ QueueStarted

\* mutant: Logger::new has the capacity checked before the writer is made
Logger_new_CapacityFirst(log_dir, buf_sz, file_size) ==
    /\ result = "none"
    /\ builder = None
    /\ args' = Some([fn |-> "new", usable |-> Usable(log_dir),
                      buf_sz |-> Some(buf_sz), writer |-> None,
                      formatter |-> None])
    /\ LET w == FileWriter_new(log_dir, file_size, Usable(log_dir)) IN
         IF IncorrectBufferSize(buf_sz)
         THEN /\ result' = Propagate("IncorrectBufferSize")
              /\ UNCHANGED <<logger, fwOpened, queueVars>>
         ELSE IF ~w.ok
         THEN /\ result' = Propagate(w.kind)
              /\ UNCHANGED <<logger, fwOpened, queueVars>>
         ELSE /\ fwOpened' = Append(fwOpened, w.writer)
              /\ MakeLogger(w.writer, buf_sz, "format_msg")
    /\ UNCHANGED facadeVars
    /\ UNCHANGED <<builder, sinkVars, prodVars, histVars>>

\* Logger::new(log_dir, buf_sz, file_size)
Logger_new(log_dir, buf_sz, file_size) ==
    /\ result = "none"
    /\ builder = None
    /\ args' = Some([fn |-> "new", usable |-> Usable(log_dir),
                      buf_sz |-> Some(buf_sz), writer |-> None,
                      formatter |-> None])
    /\ LET w == FileWriter_new(log_dir, file_size, Usable(log_dir)) IN
         IF ~w.ok
         THEN /\ result' = Propagate(w.kind)
              /\ UNCHANGED <<logger, fwOpened, queueVars>>
         ELSE /\ fwOpened' = Append(fwOpened, w.writer)
              /\ MakeLogger(w.writer, buf_sz, "format_msg")
    /\ UNCHANGED facadeVars
    /\ UNCHANGED <<builder, sinkVars, prodVars, histVars>>

\* Logger::builder()
Logger_builder ==
    /\ result = "none"
    /\ builder = None
    /\ builder' = Some([buf_sz |-> None, writer |-> None, formatter |-> None])
    /\ UNCHANGED facadeVars
    /\ UNCHANGED <<logger, args, result, fwOpened, queueVars, sinkVars, prodVars,
                   histVars>>

\* LoggerBuilder::buf_size(size)
buf_size(size) ==
    /\ result = "none"
    /\ builder # None
    /\ builder' = Some([Unwrap(builder) EXCEPT !.buf_sz = Some(size)])
    /\ UNCHANGED facadeVars
    /\ UNCHANGED <<logger, args, result, fwOpened, queueVars, sinkVars, prodVars,
                   histVars>>

\* LoggerBuilder::formatter(formatter)
formatter(f) ==
    /\ result = "none"
    /\ builder # None
    /\ builder' = Some([Unwrap(builder) EXCEPT !.formatter = Some(f)])
    /\ UNCHANGED facadeVars
    /\ UNCHANGED <<logger, args, result, fwOpened, queueVars, sinkVars, prodVars,
                   histVars>>

\* LoggerBuilder::writer(writer)
writer(w) ==
    /\ result = "none"
    /\ builder # None
    /\ builder' = Some([Unwrap(builder) EXCEPT !.writer = Some(w)])
    /\ UNCHANGED facadeVars
    /\ UNCHANGED <<logger, args, result, fwOpened, queueVars, sinkVars, prodVars,
                   histVars>>

\* mutant: build() ignores the capacity the builder was given
BuildBufSzDefault(self) == DEFAULT_BUF_SIZE

\* build(): `match self.buf_sz { Some(buf_sz) => buf_sz, None => DEFAULT_BUF_SIZE }`
BuildBufSz(self) ==
    IF self.buf_sz # None THEN Unwrap(self.buf_sz) ELSE DEFAULT_BUF_SIZE

\* build(): `match self.writer { Some(writer) => writer, None =>
\* Box::new(FileWriter::new(".", DEFAULT_LOG_FILE_SIZE)?) }`
BuildWriter(self, cwdUsable) ==
    IF self.writer # None
    THEN [ok |-> TRUE, writer |-> Unwrap(self.writer)]
    ELSE FileWriter_new(".", DEFAULT_LOG_FILE_SIZE, cwdUsable)

\* mutant: build() ignores the formatter the builder was given
BuildFormatterDefault(self) == "format_msg"

\* build(): `match self.formatter { Some(formatter) => formatter, None =>
\* Logger::format_msg }`
BuildFormatter(self) ==
    IF self.formatter # None THEN Unwrap(self.formatter) ELSE "format_msg"

\* LoggerBuilder::build(self); cwdUsable: whether "." can take a log file
LoggerBuilder_build(cwdUsable) ==
    /\ result = "none"
    /\ builder # None
    /\ LET self == Unwrap(builder)
           buf_sz == BuildBufSz(self)
           w == BuildWriter(self, cwdUsable)
           fmt == BuildFormatter(self)
       IN /\ args' = Some([fn |-> "build", usable |-> cwdUsable,
                           buf_sz |-> self.buf_sz, writer |-> self.writer,
                           formatter |-> self.formatter])
          /\ IF ~w.ok
             THEN /\ result' = Propagate(w.kind)
                  /\ UNCHANGED <<logger, fwOpened, queueVars>>
             ELSE /\ fwOpened' = IF self.writer # None THEN fwOpened
                                 ELSE Append(fwOpened, w.writer)
                  /\ MakeLogger(w.writer, buf_sz, fmt)
    /\ builder' = None
    /\ UNCHANGED facadeVars
    /\ UNCHANGED <<sinkVars, prodVars, histVars>>

Init ==
    /\ builder = None
    /\ logger = None
    /\ args = None
    /\ result = "none"
    /\ fwOpened = <<>>
    /\ bufs = [i \in {0, 1} |-> <<>>]
    /\ wr = 0
    /\ rd = 0
    /\ batch = <<>>
    /\ bgpc = "none"
    /\ terminated = FALSE
    /\ fileOut = <<>>
    /\ customOut = <<>>
    /\ flushedLen = 0
    /\ inWriter = {}
    /\ sinkUsers = {}
    /\ pc = [p \in Producers |-> "idle"]
    /\ pending = [p \in Producers |-> None]
    /\ ticket = [p \in Producers |-> 0]
    /\ nLogs = [p \in Producers |-> 0]
    /\ nFlushes = [p \in Producers |-> 0]
    /\ calls = {}
    /\ accepted = <<>>
    /\ refused = {}
    /\ surfaced = {}
    /\ snap = [p \in Producers |-> {}]
    /\ formatted = [p \in Producers |-> <<>>]
    /\ fmtCalls = {}
    /\ max_level = "Off"
    /\ enabledRet = None

(* ------------------------- the queue (contract) ----------------------- *)
\* capacity of each of the two buffers
Cap == Unwrap(logger).async_logger.buf_sz

\* the writer the queue owns
TheWriter == Unwrap(logger).async_logger.writer

\* a producer finds a free slot: in the buffer being filled, or in the other
\* one once the writer thread has emptied it
HasSlot == Len(bufs[wr]) < Cap \/ bufs[1 - wr] = <<>>

\* mutant: the item is put in front of the items already in the buffer
EnqueueFront(item) ==
    IF Len(bufs[wr]) < Cap
    THEN /\ bufs' = [bufs EXCEPT ![wr] = <<item>> \o @]
         /\ wr' = wr
    ELSE /\ bufs' = [bufs EXCEPT ![1 - wr] = <<item>>]
         /\ wr' = 1 - wr

\* the item goes into the free slot; a full buffer is swapped for the empty one
Enqueue(item) ==
    IF Len(bufs[wr]) < Cap
    THEN /\ bufs' = [bufs EXCEPT ![wr] = Append(@, item)]
         /\ wr' = wr
    ELSE /\ bufs' = [bufs EXCEPT ![1 - wr] = <<item>>]
         /\ wr' = 1 - wr

\* AsyncLoggerNB::write_value: "Err" once the queue is shut down, "Ok" when
\* the item got a slot, "Blocked" while there is none
write_value_result ==
    IF terminated THEN "Err" ELSE IF HasSlot THEN "Ok" ELSE "Blocked"

\* the effect of write_value(item) on the queue
write_value(item) ==
    LET r == write_value_result IN
    /\ IF r = "Ok" THEN Enqueue(item) ELSE UNCHANGED <<bufs, wr>>
    /\ accepted' = IF r = "Ok" THEN Append(accepted, item.id) ELSE accepted
    /\ refused' = IF r = "Err" THEN refused \cup {item.id} ELSE refused

\* the items the writer received so far
Out == IF TheWriter.kind = "FileWriter" THEN fileOut ELSE customOut

\* AsyncLoggerNB::flush returns: everything accepted before the call has
\* been through process_slice and the writer's flush()
FlushDone(p) == flushedLen >= ticket[p]

(* -------------------------------- Logger ------------------------------ *)
\* log() calls made so far
TotalLogs == Cardinality(calls)

\* mutant: log() unwraps the Result of write_value
LogUnwraps(r) == IF r = "Err" THEN {"panic"} ELSE {}

\* `let _ = write_value(..)`: what of the Result reaches log()'s caller
LogSurfaces(r) == {}

\* mutant: the formatted line is dropped, write_value is never called
SubmitSkipped(item) == UNCHANGED <<bufs, wr, accepted, refused>>

\* self.async_logger.write_value(Box::new(msg))
Submit(item) == write_value(item)

\* mutant: log() always uses the default formatter
LogLineDefault(time, record) == format_msg(time, record)

\* (self.formatter)(record)
LogLine(time, record) ==
    ApplyFormatter(Unwrap(logger).formatter, time, record)

\* where log() is after write_value returned r or blocked
LogPc(r) == IF r = "Blocked" THEN "log" ELSE "idle"

\* the discriminants of log::Level and log::LevelFilter, which `<=` compares
LevelOrd(level) ==
    CASE level = "Error" -> 1
      [] level = "Warn" -> 2
      [] level = "Info" -> 3
      [] level = "Debug" -> 4
      [] level = "Trace" -> 5
FilterOrd(filter) == IF filter = "Off" THEN 0 ELSE LevelOrd(filter)

\* mutant: the comparison of enabled() is strict
enabledStrict(level) == LevelOrd(level) < FilterOrd(max_level)

\* Logger::enabled: `metadata.level() <= log::max_level()`
enabled(level) == LevelOrd(level) <= FilterOrd(max_level)

\* a thread calls Logger::enabled(metadata) and gets its answer
Logger_enabled(p, level) ==
    /\ logger # None
    /\ pc[p] = "idle"
    /\ enabledRet' = Some([level |-> level, max_level |-> max_level,
                            ret |-> enabled(level)])
    /\ UNCHANGED <<ctorVars, queueVars, sinkVars, prodVars, histVars,
                   max_level>>

\* log::set_max_level(filter)
set_max_level(filter) ==
    /\ max_level # filter
    /\ max_level' = filter
    /\ UNCHANGED <<ctorVars, queueVars, sinkVars, prodVars, histVars,
                   enabledRet>>

\* mutant: log() returns at once when the record's level is not enabled
LogRecordFiltered(p, level, time) ==
    /\ logger # None
    /\ pc[p] = "idle"
    /\ TotalLogs < MaxLogs
    /\ LET record == [level |-> level, target |-> <<p>>,
                      args |-> <<ToString(nLogs[p] + 1)>>]
           item == [id |-> <<p, nLogs[p] + 1>>,
                    text |-> LogLine(time, record)]
           r == IF enabled(level) THEN write_value_result ELSE "Skipped"
       IN /\ calls' = calls \cup {[id |-> item.id, record |-> record,
                                   time |-> time, enabled |-> enabled(level)]}
          /\ formatted' = [formatted EXCEPT ![p] =
                              Append(@, IF enabled(level) THEN 1 ELSE 0)]
          /\ IF enabled(level) THEN Submit(item)
             ELSE UNCHANGED <<bufs, wr, accepted, refused>>
          /\ pending' = [pending EXCEPT ![p] =
                            IF r = "Blocked" THEN Some(item) ELSE @]
          /\ pc' = [pc EXCEPT ![p] = LogPc(r)]
          /\ surfaced' = surfaced \cup LogSurfaces(r)
    /\ nLogs' = [nLogs EXCEPT ![p] = @ + 1]
    /\ UNCHANGED facadeVars
    /\ UNCHANGED <<ctorVars, rd, batch, bgpc, terminated, sinkVars, ticket,
                   nFlushes, snap, fmtCalls>>

\* Logger::log(record), up to the return of write_value or to its blocking.
\* The record is the thread's next one; `enabled` in the history is what
\* enabled() would have answered for it at the time of the call.
LogRecord(p, level, time) ==
    /\ logger # None
    /\ pc[p] = "idle"
    /\ TotalLogs < MaxLogs
    /\ LET record == [level |-> level, target |-> <<p>>,
                      args |-> <<ToString(nLogs[p] + 1)>>]
           item == [id |-> <<p, nLogs[p] + 1>>,
                    text |-> LogLine(time, record)]
       IN /\ calls' = calls \cup {[id |-> item.id, record |-> record,
                                   time |-> time, enabled |-> enabled(level)]}
          /\ formatted' = [formatted EXCEPT ![p] = Append(@, 1)]
          /\ Submit(item)
          /\ pending' = [pending EXCEPT ![p] =
                            IF write_value_result = "Blocked"
                            THEN Some(item) ELSE @]
    /\ pc' = [pc EXCEPT ![p] = LogPc(write_value_result)]
    /\ surfaced' = surfaced \cup LogSurfaces(write_value_result)
    /\ nLogs' = [nLogs EXCEPT ![p] = @ + 1]
    /\ UNCHANGED facadeVars
    /\ UNCHANGED <<ctorVars, rd, batch, bgpc, terminated, sinkVars, ticket,
                   nFlushes, snap, fmtCalls>>

\* a thread of test_logger makes its next log() call
Log(p) ==
    \E time \in Times : LogRecord(p, LevelOfCall(nLogs[p] + 1), time)

\* mutant: the call that found the buffers full gives up and drops its line
LogGiveUp(p) ==
    /\ pending[p] # None
    /\ write_value_result # "Blocked"
    /\ pending' = [pending EXCEPT ![p] = None]
    /\ pc' = [pc EXCEPT ![p] = "idle"]
    /\ UNCHANGED facadeVars
    /\ UNCHANGED <<ctorVars, queueVars, sinkVars, ticket, nLogs, nFlushes,
                   histVars>>

\* Logger::log: the blocked write_value finds a slot, or the queue shut down
LogResume(p) ==
    /\ pending[p] # None
    /\ write_value_result # "Blocked"
    /\ Submit(Unwrap(pending[p]))
    /\ pending' = [pending EXCEPT ![p] = None]
    /\ pc' = [pc EXCEPT ![p] = "idle"]
    /\ surfaced' = surfaced \cup LogSurfaces(write_value_result)
    /\ UNCHANGED facadeVars
    /\ UNCHANGED <<ctorVars, rd, batch, bgpc, terminated, sinkVars, ticket,
                   nLogs, nFlushes, calls, snap, formatted, fmtCalls>>

\* mutant: flush() returns at once, without waiting for the queue
FlushNoWait(p) ==
    /\ logger # None
    /\ pc[p] = "idle"
    /\ nFlushes[p] < MaxFlushes
    /\ ticket' = [ticket EXCEPT ![p] = Len(accepted)]
    /\ snap' = [snap EXCEPT ![p] = {accepted[i] : i \in 1..Len(accepted)}]
    /\ nFlushes' = [nFlushes EXCEPT ![p] = @ + 1]
    /\ UNCHANGED facadeVars
    /\ UNCHANGED <<ctorVars, queueVars, sinkVars, pc, pending, nLogs, calls,
                   accepted, refused, surfaced, formatted, fmtCalls>>

\* mutant: flush() calls the writer's flush() on the calling thread
FlushDirect(p) ==
    /\ logger # None
    /\ pc[p] = "idle"
    /\ nFlushes[p] < MaxFlushes
    /\ pc' = [pc EXCEPT ![p] = "flush"]
    /\ ticket' = [ticket EXCEPT ![p] = Len(accepted)]
    /\ snap' = [snap EXCEPT ![p] = {accepted[i] : i \in 1..Len(accepted)}]
    /\ nFlushes' = [nFlushes EXCEPT ![p] = @ + 1]
    /\ sinkUsers' = sinkUsers \cup {p}
    /\ UNCHANGED facadeVars
    /\ UNCHANGED <<ctorVars, queueVars, fileOut, customOut, flushedLen,
                   inWriter, pending, nLogs, calls, accepted, refused,
                   surfaced, formatted, fmtCalls>>

\* Logger::flush(): AsyncLoggerNB::flush(&self.async_logger) is called
Flush(p) ==
    /\ logger # None
    /\ pc[p] = "idle"
    /\ nFlushes[p] < MaxFlushes
    /\ pc' = [pc EXCEPT ![p] = "flush"]
    /\ ticket' = [ticket EXCEPT ![p] = Len(accepted)]
    /\ snap' = [snap EXCEPT ![p] = {accepted[i] : i \in 1..Len(accepted)}]
    /\ nFlushes' = [nFlushes EXCEPT ![p] = @ + 1]
    /\ UNCHANGED facadeVars
    /\ UNCHANGED <<ctorVars, queueVars, sinkVars, pending, nLogs, calls,
                   accepted, refused, surfaced, formatted, fmtCalls>>

\* Logger::flush(): AsyncLoggerNB::flush returns
FlushReturn(p) ==
    /\ pc[p] = "flush"
    /\ FlushDone(p)
    /\ pc' = [pc EXCEPT ![p] = "idle"]
    /\ UNCHANGED facadeVars
    /\ UNCHANGED <<ctorVars, queueVars, sinkVars, pending, ticket, nLogs,
                   nFlushes, histVars>>

(* --------------------------- the writer thread ------------------------ *)
\* mutant: the thread takes a buffer only once it is full
BgTakeFullOnly ==
    /\ bgpc = "wait"
    /\ Len(bufs[rd]) = Cap
    /\ batch' = bufs[rd]
    /\ bufs' = [bufs EXCEPT ![rd] = <<>>]
    /\ rd' = IF rd # wr THEN 1 - rd ELSE rd
    /\ bgpc' = "process"
    /\ inWriter' = inWriter \cup {BG}
    /\ sinkUsers' = sinkUsers \cup {BG}
    /\ UNCHANGED facadeVars
    /\ UNCHANGED <<ctorVars, wr, terminated, fileOut, customOut, flushedLen,
                   prodVars, histVars>>

\* the thread takes the buffer it drains next and enters the writer
BgTake ==
    /\ bgpc = "wait"
    /\ bufs[rd] # <<>>
    /\ batch' = bufs[rd]
    /\ bufs' = [bufs EXCEPT ![rd] = <<>>]
    /\ rd' = IF rd # wr THEN 1 - rd ELSE rd
    /\ bgpc' = "process"
    /\ inWriter' = inWriter \cup {BG}
    /\ sinkUsers' = sinkUsers \cup {BG}
    /\ UNCHANGED facadeVars
    /\ UNCHANGED <<ctorVars, wr, terminated, fileOut, customOut, flushedLen,
                   prodVars, histVars>>

\* Writer::process_slice(slice)
process_slice ==
    /\ bgpc = "process"
    /\ IF TheWriter.kind = "FileWriter"
       THEN fileOut' = fileOut \o batch /\ UNCHANGED customOut
       ELSE customOut' = customOut \o batch /\ UNCHANGED fileOut
    /\ batch' = <<>>
    /\ bgpc' = "flush"
    /\ UNCHANGED facadeVars
    /\ UNCHANGED <<ctorVars, bufs, wr, rd, terminated, flushedLen, inWriter,
                   sinkUsers, prodVars, histVars>>

\* Writer::flush(), after which the thread waits for the next buffer
writer_flush ==
    /\ bgpc = "flush"
    /\ flushedLen' = Len(Out)
    /\ bgpc' = "wait"
    /\ inWriter' = inWriter \ {BG}
    /\ UNCHANGED facadeVars
    /\ UNCHANGED <<ctorVars, bufs, wr, rd, batch, terminated, fileOut,
                   customOut, sinkUsers, prodVars, histVars>>

\* the queue is shut down
Terminate ==
    /\ logger # None
    /\ ~terminated
    /\ terminated' = TRUE
    /\ UNCHANGED facadeVars
    /\ UNCHANGED <<ctorVars, bufs, wr, rd, batch, bgpc, sinkVars, prodVars,
                   histVars>>

\* "." matters to build() only when it has to make the FileWriter itself
CwdStates ==
    IF builder # None /\ Unwrap(builder).writer # None THEN {TRUE}
    ELSE BOOLEAN

Construct ==
    \/ \E d \in {"LOG_DIR", "NONEXISTING_LOG_DIR"}, n \in BufSizes :
         Logger_new(d, n, LOG_FILE_SIZE)
    \/ Logger_builder
    \/ \E n \in BufSizes : buf_size(n)
    \/ formatter("custom_formatter")
    \/ writer([kind |-> "WriterTest"])
    \/ \E cwdUsable \in CwdStates : LoggerBuilder_build(cwdUsable)

ConstructAll ==
    \/ \E d \in Dirs, n \in AllBufSizes, sz \in FileSizes :
         Logger_new(d, n, sz)
    \/ Logger_builder
    \/ \E n \in AllBufSizes : buf_size(n)
    \/ formatter("custom_formatter")
    \/ writer([kind |-> "WriterTest"])
    \/ \E cwdUsable \in CwdStates : LoggerBuilder_build(cwdUsable)

Produce ==
    \/ \E p \in Producers : Log(p)
    \/ \E p \in Producers : LogResume(p)
    \/ \E p \in Producers : Flush(p)
    \/ \E p \in Producers : FlushReturn(p)

\* the writer thread's steps, with no shutdown of the queue
WriterThread ==
    \/ BgTake
    \/ process_slice
    \/ writer_flush

Drain ==
    \/ BgTake
    \/ process_slice
    \/ writer_flush
    \/ Terminate

Next == Construct \/ Produce \/ Drain

Spec == Init /\ [][Next]_vars

\* construction alone, over every capacity
CtorSpec == Init /\ [][ConstructAll]_vars

\* the default formatter alone, over records of every level
FormatNext == \E time \in Times, record \in Records : Format(time, record)

FormatSpec == Init /\ [][FormatNext]_vars

\* the Logger behind the facade, built as test_logger builds it
FacadeConstruct ==
    \E n \in {1, 2} : Logger_new("LOG_DIR", n, LOG_FILE_SIZE)

\* the threads and the writer thread of a Logger built as test_logger builds
\* it, the queue never shut down.  The writer thread is scheduled whenever
\* it has something to do and the writer's calls return; a thread whose
\* blocked call can return is scheduled too.
LiveNext == FacadeConstruct \/ Produce \/ WriterThread

Fairness ==
    /\ WF_vars(BgTake)
    /\ WF_vars(process_slice)
    /\ WF_vars(writer_flush)
    /\ \A p \in Producers : WF_vars(LogResume(p)) /\ WF_vars(FlushReturn(p))

LiveSpec == Init /\ [][LiveNext]_vars /\ Fairness

\* enabled() under every threshold
EnabledNext ==
    \/ FacadeConstruct
    \/ \E filter \in LevelFilters : set_max_level(filter)
    \/ \E p \in Producers, level \in Levels : Logger_enabled(p, level)

EnabledSpec == Init /\ [][EnabledNext]_vars

\* log() under every threshold: the threshold changes at any time, and the
\* threads call log() with records of every level.  The buffers hold two
\* lines each, so no call blocks.
Facade ==
    \/ \E filter \in LevelFilters : set_max_level(filter)
    \/ \E p \in Producers, level \in Levels, time \in Times :
         TotalLogs < MaxFacadeLogs /\ LogRecord(p, level, time)

FacadeNext ==
    \/ Logger_new("LOG_DIR", 2, LOG_FILE_SIZE)
    \/ Facade
    \/ WriterThread

FacadeSpec == Init /\ [][FacadeNext]_vars

(* ------------------------------ properties ---------------------------- *)
Ids(s) == {s[i].id : i \in 1..Len(s)}
Count(s, id) == Cardinality({i \in 1..Len(s) : s[i].id = id})
CallOf(id) == CHOOSE c \in calls : c.id = id
\* everything a writer received
Received == fileOut \o customOut
\* the received items the writer's flush() covers
Persisted == SubSeq(Received, 1, flushedLen)
\* the items the queue holds
Queued == bufs[0] \o bufs[1] \o batch
\* p has called flush() and the call has returned
Returned(p) == nFlushes[p] > 0 /\ pc[p] # "flush"
BothFull == Len(bufs[0]) = Cap /\ Len(bufs[1]) = Cap
\* no call is in progress and every accepted line was accepted before a
\* flush() that has returned
AllFlushed ==
    /\ \A p \in Producers : pc[p] = "idle" /\ pending[p] = None
    /\ \A i \in 1..Len(accepted) :
         \E p \in Producers : Returned(p) /\ accepted[i] \in snap[p]
PersistedAt(t, l) ==
    {i \in 1..Len(Persisted) :
        /\ CallOf(Persisted[i].id).record.target = <<t>>
        /\ CallOf(Persisted[i].id).record.level = l}
CallsAt(t, l) ==
    {c \in calls : c.record.target = <<t>> /\ c.record.level = l}

\* C1: no line reaches a writer twice; once a flush() has returned, every
\* line write_value accepted before that flush() was called is in the
\* persisted output exactly once; and when all lines were accepted and
\* flushed, the persisted lines per (target, level) are as many as the log()
\* calls with that target and level.
ExactlyOnceDelivery ==
    /\ \A c \in calls : Count(Received, c.id) <= 1
    /\ \A p \in Producers :
         Returned(p) => \A id \in snap[p] : Count(Persisted, id) = 1
    /\ (AllFlushed /\ refused = {}) =>
         \A t \in Producers, l \in Levels :
            Cardinality(PersistedAt(t, l)) = Cardinality(CallsAt(t, l))

\* C1's case: both threads logged, three lines in all, both flushed at
\* different times, and everything is persisted
C1_Witness ==
    /\ AllFlushed
    /\ refused = {}
    /\ Cardinality(calls) = MaxLogs
    /\ \A p \in Producers : Returned(p) /\ \E c \in calls : c.record.target = <<p>>
    /\ snap["main"] # snap["thread"]
    /\ \E c, d \in calls : c.record.level # d.record.level

\* C2: when flush() has returned, every line accepted before it was called,
\* by any thread, has been through process_slice and is covered by a
\* completed flush() of the writer.
FlushBarrier ==
    \A p \in Producers : Returned(p) => snap[p] \subseteq Ids(Persisted)

\* C2's case: a flush() returned that had lines of the other thread before it
C2_Witness ==
    \E p \in Producers :
        /\ Returned(p)
        /\ Cardinality(snap[p]) >= 2
        /\ \E id \in snap[p] : id[1] # p

\* C3: the lines of one thread reach the writer in the order of its log()
\* calls.
PerProducerOrder ==
    \A i, j \in 1..Len(Received) :
        (i < j /\ Received[i].id[1] = Received[j].id[1])
            => Received[i].id[2] < Received[j].id[2]

\* C3's case: two lines of one thread were written with a line of the other
\* thread between them, after a buffer swap
C3_Witness ==
    /\ Len(Received) = 3
    /\ Received[1].id[1] = Received[3].id[1]
    /\ Received[1].id[1] # Received[2].id[1]
    /\ Cap = 1

\* C4: a line is never discarded: every log() call's line was accepted, was
\* refused by a queue that is shut down, or is held by its blocked caller,
\* and an accepted line is in the queue or at the writer; a call blocks only
\* when both buffers are full, and can go on as soon as one is not.
NoDiscard ==
    /\ \A c \in calls :
         \/ c.id \in Ids(Queued \o Received)
         \/ c.id \in refused
         \/ /\ pending[c.id[1]] # None
            /\ Unwrap(pending[c.id[1]]).id = c.id
    /\ \A p \in Producers :
         (logger # None /\ pending[p] # None /\ ~BothFull)
            => ENABLED LogResume(p)
BackPressure ==
    /\ []NoDiscard
    /\ [][\A p \in Producers :
            (pending[p] = None /\ pending'[p] # None) => BothFull]_vars
    /\ [][\A p \in Producers :
            (pending[p] # None /\ pending'[p] = None /\ ~terminated)
                => Unwrap(pending[p]) \in {bufs'[wr'][i] :
                                            i \in 1..Len(bufs'[wr'])}]_vars

\* C4's case: a producer is blocked while both buffers are full
C4_Witness ==
    /\ logger # None
    /\ BothFull
    /\ \E p \in Producers : pending[p] # None /\ pc[p] = "log"

\* C5: nothing of write_value's error reaches the caller of log(); the call
\* has returned, and the refused line is nowhere in the queue nor at a
\* writer.
SubmitFailureSwallowed ==
    /\ surfaced = {}
    /\ \A id \in refused :
         /\ id \notin Ids(Queued \o Received)
         /\ \A p \in Producers :
              pending[p] # None => Unwrap(pending[p]).id # id
    /\ \A p \in Producers : pc[p] = "log" <=> pending[p] # None

\* C5's case: a line was refused and its caller is back from log()
C5_Witness ==
    \E id \in refused : pc[id[1]] = "idle" /\ nLogs[id[1]] >= id[2]

\* the Logger was built by the builder with a custom formatter and writer
BuiltCustom ==
    /\ result = "Ok"
    /\ Unwrap(args).fn = "build"
    /\ Unwrap(args).formatter = Some("custom_formatter")
    /\ Unwrap(args).writer # None

\* C8: with a custom formatter and a custom writer set on the builder, the
\* writer sees every line as the formatter made it, every line flushed is
\* at the custom writer, and the FileWriter is neither built nor called.
CustomSubstitution ==
    BuiltCustom =>
        /\ \A i \in 1..Len(customOut) :
             customOut[i].text =
                custom_formatter(CallOf(customOut[i].id).time,
                                 CallOf(customOut[i].id).record)
        /\ \A p \in Producers :
             Returned(p) => snap[p] \subseteq Ids(customOut)
        /\ fileOut = <<>>
        /\ fwOpened = <<>>

\* C8's case: the custom writer has received lines and a flush() returned
C8_Witness ==
    /\ BuiltCustom
    /\ Len(customOut) >= 2
    /\ \E p \in Producers : Returned(p) /\ snap[p] # {}

\* C10: only the writer thread is ever inside the writer, and whatever the
\* writer received or flushed, the writer thread gave it.
SinkExclusivity ==
    /\ inWriter \subseteq {BG}
    /\ sinkUsers \subseteq {BG}
    /\ Cardinality(inWriter) <= 1
    /\ (BG \in inWriter) <=> (bgpc \in {"process", "flush"})
    /\ (Received # <<>> \/ flushedLen > 0) => BG \in sinkUsers

\* C10's case: the writer thread is in the writer while one producer is in
\* flush() and the other in log()
C10_Witness ==
    /\ BG \in inWriter
    /\ \E p, q \in Producers : pc[p] = "flush" /\ pc[q] = "log"

\* the capacity the constructor call asked for
AskedBufSz ==
    IF Unwrap(args).buf_sz # None THEN Unwrap(Unwrap(args).buf_sz)
    ELSE DEFAULT_BUF_SIZE
\* the call had to initialise the FileWriter, and could not
WriterInitFailed ==
    /\ args # None
    /\ Unwrap(args).writer = None
    /\ ~Unwrap(args).usable

\* C6: Logger::new on a usable directory and build() with a supplied writer
\* fail with IncorrectBufferSize for the capacities 0 and usize::MAX, and
\* succeed, with that capacity, for every capacity between the two.
CapacityValidation ==
    (args # None /\ (Unwrap(args).writer # None \/
                     (Unwrap(args).fn = "new" /\ Unwrap(args).usable))) =>
        /\ AskedBufSz \in {0, USIZE_MAX} =>
             result = "IncorrectBufferSize" /\ logger = None
        /\ (0 < AskedBufSz /\ AskedBufSz < USIZE_MAX) =>
             result = "Ok" /\ logger # None /\ Cap = AskedBufSz

\* C6's case: build() with a supplied writer and the capacity usize::MAX
C6_Witness ==
    /\ args # None
    /\ Unwrap(args).fn = "build"
    /\ Unwrap(args).writer # None
    /\ Unwrap(args).buf_sz = Some(USIZE_MAX)
    /\ result = "IncorrectBufferSize"

\* C7: Logger::new on a directory that does not exist, with a legal
\* capacity, fails with IoError and returns no Logger; and whenever the
\* FileWriter cannot be initialised the error is IoError.
UnusableDirIsIoError ==
    /\ WriterInitFailed => result = "IoError" /\ logger = None /\ bgpc = "none"
    /\ result = "IoError" => WriterInitFailed

\* C7's case: Logger::new(NONEXISTING_LOG_DIR, 100, ..)
C7_Witness ==
    /\ WriterInitFailed
    /\ Unwrap(args).fn = "new"
    /\ Unwrap(args).buf_sz = Some(100)
    /\ result = "IoError"

\* C9: a constructor call that fails with IncorrectBufferSize leaves nothing
\* behind: no Logger, no queue thread, no writer initialised.
FailedConstructionBuildsNothing ==
    result = "IncorrectBufferSize" =>
        logger = None /\ bgpc = "none" /\ fwOpened = <<>>

\* the levels a threshold lets through
EnabledLevels(filter) ==
    CASE filter = "Off" -> {}
      [] filter = "Error" -> {"Error"}
      [] filter = "Warn" -> {"Error", "Warn"}
      [] filter = "Info" -> {"Error", "Warn", "Info"}
      [] filter = "Debug" -> {"Error", "Warn", "Info", "Debug"}
      [] filter = "Trace" -> {"Error", "Warn", "Info", "Debug", "Trace"}
\* what enabled() answered is what the threshold of the moment lets through
EnabledAnswer ==
    enabledRet # None =>
        LET e == Unwrap(enabledRet)
        IN e.ret = (e.level \in EnabledLevels(e.max_level))

\* C11: enabled(level) is true exactly when the level is at or below the
\* threshold of the moment (Off lets nothing through), and the call changes
\* nothing: not the threshold, not the Logger, not the queue.
EnabledIffAtOrBelow ==
    /\ []EnabledAnswer
    /\ [][enabledRet' # enabledRet =>
            UNCHANGED <<ctorVars, queueVars, sinkVars, prodVars, histVars,
                        max_level>>]_vars

\* C11's case: enabled() was asked for the level the threshold is set to
C11_Witness ==
    enabledRet = Some([level |-> "Warn", max_level |-> "Warn", ret |-> TRUE])

\* how many times the line of call id was handed to write_value: it is in
\* the queue or at a writer, was refused, or its blocked caller holds it
Submitted(id) ==
    Count(Queued \o Received, id)
    + (IF id \in refused THEN 1 ELSE 0)
    + (IF pending[id[1]] # None /\ Unwrap(pending[id[1]]).id = id
       THEN 1 ELSE 0)

\* C15: every log() call ran the formatter once and handed one line to
\* write_value, whatever the record's level and whatever the threshold was,
\* also when enabled() was false for the record.
LogDoesNotFilter ==
    /\ \A p \in Producers :
         /\ Len(formatted[p]) = nLogs[p]
         /\ \A i \in 1..Len(formatted[p]) : formatted[p][i] = 1
    /\ \A c \in calls : Submitted(c.id) = 1

\* C15's case: a record that was not enabled when it was logged has reached
\* the writer, and so has one that was enabled
C15_Witness ==
    /\ \E c \in calls : ~c.enabled /\ c.id \in Ids(Received)
    /\ \E c \in calls : c.enabled /\ c.id \in Ids(Received)

\* the upper-case names of the levels
UpperCase ==
    [Error |-> "ERROR", Warn |-> "WARN", Info |-> "INFO", Debug |-> "DEBUG",
     Trace |-> "TRACE"]
\* how many pieces of s are the piece x
Pieces(s, x) == Cardinality({i \in 1..Len(s) : s[i] = x})
\* reading a line back: the target ends at the first "]: " after the level,
\* the message is what follows, up to the last newline
SepIndex(line) ==
    CHOOSE k \in 6..Len(line) :
        line[k] = "]: " /\ \A j \in 6..(k - 1) : line[j] # "]: "
ParseLine(line) ==
    [level |-> CHOOSE l \in Levels : UpperCase[l] = line[4],
     target |-> SubSeq(line, 6, SepIndex(line) - 1),
     args |-> SubSeq(line, SepIndex(line) + 1, Len(line) - 1)]

\* C13 as stated: a line is the line of one (level, target, message) only.
LineIdentifiesCall ==
    \A c, d \in fmtCalls : c.line = d.line => c.record = d.record

\* C13, amended: the default formatter writes "[", the time, the level's
\* upper-case name, the target, "]: ", the message and one newline of its
\* own, target and message unchanged; and the line read back gives the
\* call's level, target and message when the target does not hold the
\* separator "]: " itself.
DefaultRecordFormat ==
    \A c \in fmtCalls :
        LET line == c.line
            r == c.record
        IN /\ Len(line) = 7 + Len(r.target) + Len(r.args)
           /\ SubSeq(line, 1, 5) = <<"[", c.time, " ", UpperCase[r.level], " ">>
           /\ SubSeq(line, 6, 5 + Len(r.target)) = r.target
           /\ line[6 + Len(r.target)] = "]: "
           /\ SubSeq(line, 7 + Len(r.target), Len(line) - 1) = r.args
           /\ line[Len(line)] = "\n"
           /\ Pieces(line, "\n") =
                1 + Pieces(r.target, "\n") + Pieces(r.args, "\n")
           /\ Pieces(r.target, "]: ") = 0 => ParseLine(line) = r

\* C13's case: the WARN line of target "thread" was formatted, and with it a
\* line of another level whose message holds the separator
C13_Witness ==
    /\ \E c \in fmtCalls :
         c.line = <<"[", "t0", " ", "WARN", " ", "thread", "]: ",
                    "testing log record", "\n">>
    /\ \E c \in fmtCalls :
         /\ c.record.level = "Trace"
         /\ Pieces(c.record.args, "]: ") = 1
         /\ ParseLine(c.line) = c.record

\* C12: build() takes each field the builder was given and the default for
\* each field it was not given, one field independently of the others: the
\* capacity 256, a FileWriter on "." with 10 MiB files, the default
\* formatter; and it fails with the kind its callee failed with: IoError
\* from the default writer, IncorrectBufferSize from the queue.
BuilderDefaults ==
    (args # None /\ Unwrap(args).fn = "build") =>
        LET a == Unwrap(args)
            cap == IF a.buf_sz = None THEN 256 ELSE Unwrap(a.buf_sz)
            wrt == IF a.writer = None
                   THEN [kind |-> "FileWriter", dir |-> ".",
                         file_size |-> 10485760]
                   ELSE Unwrap(a.writer)
            fmt == IF a.formatter = None THEN "format_msg"
                   ELSE Unwrap(a.formatter)
            noWriter == a.writer = None /\ ~a.usable
            badCap == cap = 0 \/ cap = USIZE_MAX
        IN /\ noWriter => result = "IoError" /\ logger = None
           /\ (~noWriter /\ badCap) =>
                result = "IncorrectBufferSize" /\ logger = None
           /\ (~noWriter /\ ~badCap) =>
                /\ result = "Ok"
                /\ logger = Some([async_logger |-> [writer |-> wrt,
                                                     buf_sz |-> cap],
                                   formatter |-> fmt])

\* C12's case: build() with a formatter set and nothing else: the formatter
\* is the one given, capacity and writer are the defaults
C12_Witness ==
    /\ args = Some([fn |-> "build", usable |-> TRUE, buf_sz |-> None,
                     writer |-> None,
                     formatter |-> Some("custom_formatter")])
    /\ result = "Ok"
    /\ Unwrap(logger).formatter = "custom_formatter"
    /\ Cap = 256
    /\ TheWriter.kind = "FileWriter"

\* C16: the writer is made before the capacity is looked at: a call that
\* has to make the FileWriter and cannot fails with IoError also when the
\* capacity is 0 or usize::MAX, and a call that fails with
\* IncorrectBufferSize has its writer: given to it, or made by it.
ErrorPrecedence ==
    args # None =>
        /\ (WriterInitFailed /\ AskedBufSz \in {0, USIZE_MAX}) =>
             result = "IoError"
        /\ result = "IncorrectBufferSize" =>
             /\ ~WriterInitFailed
             /\ AskedBufSz \in {0, USIZE_MAX}
             /\ Unwrap(args).writer = None => Len(fwOpened) = 1

\* C16's case: Logger::new(NONEXISTING_LOG_DIR, 0, ..) has failed
C16_Witness ==
    /\ args # None
    /\ Unwrap(args).fn = "new"
    /\ ~Unwrap(args).usable
    /\ Unwrap(args).buf_sz = Some(0)
    /\ result = "IoError"

=============================================================================
